---- MODULE Spec2Model ----
(***************************************************************************)
(* A model of the request-execution core of lightspeed.py:                 *)
(* HTTPClient.request (the retry/backoff loop), json_or_text (body         *)
(* decoding), the error taxonomy of errors.py, and the session lifecycle   *)
(* (HTTPClient.__init__, startup, static_login).                           *)
(*                                                                         *)
(* Durations (Python floats, in seconds) are exact fractions <<n, d>>, so  *)
(* that data['retry_after'] / 1000 loses nothing: a wait of 1.5 s is       *)
(* <<1500, 1000>>, the constant 30.0 is <<30, 1>>.                         *)
(***************************************************************************)
EXTENDS Integers, Sequences, FiniteSets, TLC

\* ------------------------------------------------------------------ bounds

\* Cap on the connection pools (aiohttp.ClientSession objects) one HTTPClient
\* creates; every startup() creates one, so this caps the number of logins.
MaxPools == 2

\* Cap on the close() calls made in a row, and on the times one pool's close
\* operation is invoked
MaxCloses == 2

\* ------------------------------------------------------- program constants

\* Mutation of MaxTries: one iteration too many
MaxTries_OffByOne == 5 + 1

\* `for tries in range(5)`
MaxTries == 5

\* `max(30.0, max_ratelimit_timeout)`: the floor, in seconds
RatelimitFloor == 30

\* Python's None
None == "None"

\* utils.MISSING, the falsy sentinel that fills HTTPClient.__session
MISSING == 0

\* An Optional[float]: <<>> is None, otherwise the fraction itself
NoFloat == <<>>

\* The float of the integer n
Float(n) == <<n, 1>>

\* x / n for a float x and a positive integer n
Div(x, n) == <<x[1], x[2] * n>>

\* x > y, x == y on floats (denominators are positive)
Gt(x, y) == x[1] * y[2] > y[1] * x[2]

Eq(x, y) == x[1] * y[2] = y[1] * x[2]

\* -------------------------------------------------------- decoded bodies
\* A decoded body is what json_or_text returns: a Python str, or the value
\* json.loads built.  One record shape for all of them:
\*   type         the Python type of the value
\*   str          the characters, when type = "str"
\*   keys         the keys of the map, when type = "dict"
\*   retry_after  data['retry_after'], when "retry_after" \in keys

PyStr(s) == [type |-> "str", str |-> s, keys |-> {}, retry_after |-> 0]

PyDict(ks, ra) == [type |-> "dict", str |-> "", keys |-> ks, retry_after |-> ra]

PyList == [type |-> "list", str |-> "", keys |-> {}, retry_after |-> 0]

PyNone == [type |-> "NoneType", str |-> "", keys |-> {}, retry_after |-> 0]

\* ---------------------------------------------------------- the transport
\* retry_after values (milliseconds) the server puts in a 429 body
RetryAfters == {0, 1500, 30000, 30001, 60001}

\* The text of the JSON document {"retry_after": n}
RetryAfterDoc(n) == "{\"retry_after\":" \o ToString(n) \o "}"

IdentityDoc == "{\"id\":\"u1\"}"

\* A user payload with the keys PartialUser.__init__ subscripts
UserDoc == "{\"id\":\"u1\",\"path\":\"u1\",\"username\":\"U\"}"

\* The content-type header of a response is a string, or None when the
\* header is absent.
Statuses == {200, 204, 299, 300, 400, 401, 403, 404, 429, 500, 502, 503, 504, 524}

Body(c, t) == [ctype |-> c, text |-> t]

\* Bodies the server (or Cloudflare in front of it) sends with any status
CommonBodies ==
    { Body("application/json", IdentityDoc),
      Body("application/json; charset=utf-8", IdentityDoc),
      Body("text/html", "error code: 1015"),
      Body(None, "error code: 1015") }

\* Bodies sent with a 429 besides the common ones
RateLimitBodies ==
    {Body("application/json", RetryAfterDoc(n)) : n \in RetryAfters} \cup
    { Body("application/json", "{}"),
      Body("application/json", "[]"),
      Body("application/json", "\"banned\""),
      Body("application/json; charset=utf-8", RetryAfterDoc(1500)),
      Body(None, RetryAfterDoc(1500)) }

\* What the transport hands back for one attempt.  A body labelled
\* application/json is a JSON document.
Responses ==
    {[status |-> s, ctype |-> b.ctype, text |-> b.text] :
        s \in Statuses, b \in CommonBodies} \cup
    {[status |-> 429, ctype |-> b.ctype, text |-> b.text] : b \in RateLimitBodies}

NoResponse == [status |-> 0, ctype |-> None, text |-> ""]

\* utils._from_json (json.loads / orjson.loads) on the documents above
FromJson(text) ==
    IF \E n \in RetryAfters : text = RetryAfterDoc(n)
    THEN PyDict({"retry_after"}, CHOOSE n \in RetryAfters : text = RetryAfterDoc(n))
    ELSE CASE text = "{}" -> PyDict({}, 0)
           [] text = "[]" -> PyList
           [] text = IdentityDoc -> PyDict({"id"}, 0)
           [] text = UserDoc -> PyDict({"id", "path", "username"}, 0)
           [] text = "\"banned\"" -> PyStr("banned")

\* Mutation of json_or_text: a body that reads as a JSON document is parsed
\* whatever the content-type says
json_or_text_Sniff(response) ==
    IF \/ response.ctype = "application/json"
       \/ response.text = IdentityDoc
       \/ \E n \in RetryAfters : response.text = RetryAfterDoc(n)
    THEN FromJson(response.text)
    ELSE PyStr(response.text)

\* Mutation of json_or_text: any content-type that begins with
\* application/json is parsed
json_or_text_Prefix(response) ==
    IF response.ctype \in {"application/json", "application/json; charset=utf-8"}
    THEN FromJson(response.text)
    ELSE PyStr(response.text)

\* json_or_text: parsed iff the content-type header is exactly
\* application/json; a missing header (KeyError) keeps the text
json_or_text(response) ==
    IF response.ctype # None /\ response.ctype = "application/json"
    THEN FromJson(response.text)
    ELSE PyStr(response.text)

\* ------------------------------------------------------------ the state

VARIABLES
    session,                \* HTTPClient.__session: MISSING, or the pool it holds
    pools,                  \* the pools created so far, each "open" or "closed"
    token,                  \* HTTPClient.token
    max_ratelimit_timeout,  \* HTTPClient.max_ratelimit_timeout
    pc,                     \* where HTTPClient.request stands
    tries,                  \* the loop variable of `for tries in range(5)`
    response,               \* request's local: the last response
    data,                   \* request's local: its decoded body
    sleeping,               \* the argument of the last asyncio.sleep
    result,                 \* how request ended: the value returned or the error raised
    login_pc,               \* where HTTPClient.static_login stands
    old_token,              \* static_login's local
    login_token,            \* static_login's argument
    login_result,           \* how static_login ended
    attempts,               \* history: transport calls this request has issued
    sleeps,                 \* history: sleeps this request has started
    only_transient,         \* history: every response so far was a 502, 504 or 524
    closes,                 \* history: per pool, the invocations of its close operation
    close_streak,           \* history: close() calls made in a row
    reclosed,               \* history: the last close() found its pool already closed
    close_result,           \* how the last close() ended
    headers,                \* request's kwargs['headers']
    sent_json,              \* request was given a json body (kwargs['data'] is set)
    route,                  \* a Route: its path and parameters
    route_parts,            \* history: the pieces the path of route was written from
    url,                    \* how the last Route.url(base) call on route ended
    max_arg,                \* history: the max_ratelimit_timeout argument of __init__
    ratelimits,             \* history: attempts of this request that slept on a 429
    client_pc,              \* where Client.login stands
    client_result,          \* how the last Client.login call ended
    connection_user,        \* Client._connection.user
    user_seen,              \* what Client.user gave when it was last read
    calls                   \* the locals of each concurrent caller's coroutine

vars ==
    <<session, pools, token, max_ratelimit_timeout, pc, tries, response, data,
      sleeping, result, login_pc, old_token, login_token, login_result,
      attempts, sleeps, only_transient, closes, close_streak, reclosed, close_result,
      headers, sent_json, route, route_parts, url, max_arg,
      ratelimits, client_pc, client_result, connection_user, user_seen, calls>>

\* What only the Client operations write
clientVars == <<client_pc, client_result, connection_user, user_seen>>

\* What only the Route operations write
routeVars == <<route, route_parts, url>>

\* What only request's prologue writes
headerVars == <<headers, sent_json>>

\* What only close() writes
closeVars == <<closes, close_streak, reclosed, close_result>>

Tokens == {"abc", "xyz"}

\* ------------------------------------------------------------- headers
\* A header dict maps each name to its value, or to None when it is not set.
HeaderNames == {"User-Agent", "X-Session-Token", "Content-Type", "Accept"}

\* HTTPClient.user_agent
UserAgent == "Lightspeed.py (https://github.com/MCausc78/lightspeed.py)"

NoHeaders == [k \in HeaderNames |-> None]

\* The `headers` argument callers pass to request; NoHeaders when they pass none
ExtraHeaders ==
    { NoHeaders,
      [NoHeaders EXCEPT !["Accept"] = "*/*"],
      [NoHeaders EXCEPT !["User-Agent"] = "curl/8"],
      [NoHeaders EXCEPT !["X-Session-Token"] = "forged", !["Content-Type"] = "text/plain"] }

\* request's headers: the User-Agent, then the caller's headers over it, then
\* the token and the JSON content-type over those
BuildHeaders(extra, json, tok) ==
    LET h0 == [NoHeaders EXCEPT !["User-Agent"] = UserAgent]
        h1 == [k \in HeaderNames |-> IF extra[k] # None THEN extra[k] ELSE h0[k]]
        h2 == IF tok # None THEN [h1 EXCEPT !["X-Session-Token"] = tok] ELSE h1
    IN IF json THEN [h2 EXCEPT !["Content-Type"] = "application/json"] ELSE h2

\* max_ratelimit_timeout arguments (seconds) given to the constructor
MaxArgs == {NoFloat, Float(0), Float(10), Float(30), Float(60)}

\* ---------------------------------------------------------------- Route
\* A Python str is the sequence of its characters.  A parameter value is a
\* str or an int: [t |-> "str", s |-> characters] or [t |-> "int", i |-> n].

StrValue(cs) == [t |-> "str", s |-> cs, i |-> 0]

IntValue(n) == [t |-> "int", s |-> <<>>, i |-> n]

\* The characters urllib.parse.quote never encodes, among those used here
AlwaysSafe ==
    {"a", "b", "c", "d", "e", "f", "g", "h", "i", "m", "n", "o", "p", "r", "s", "t",
     "u", "v", "x", "y", "_", ".", "-", "~", "0", "1", "2", "3", "4", "5", "7", "8"}

\* ord(c) of the other characters used here
Ord(c) ==
    CASE c = " " -> 32
      [] c = "#" -> 35
      [] c = "%" -> 37
      [] c = "/" -> 47
      [] c = ":" -> 58
      [] c = "?" -> 63
      [] c = "{" -> 123
      [] c = "}" -> 125

HexDigits ==
    <<"0", "1", "2", "3", "4", "5", "6", "7", "8", "9", "A", "B", "C", "D", "E", "F">>

\* Mutation of QuoteChar: quote_plus, a space becomes "+"
QuoteChar_Plus(c) ==
    IF c \in AlwaysSafe \cup {"/"} THEN <<c>>
    ELSE IF c = " " THEN <<"+">>
    ELSE <<"%", HexDigits[(Ord(c) \div 16) + 1], HexDigits[(Ord(c) % 16) + 1]>>

\* urllib.parse.quote on one character, with its default safe='/': kept when
\* safe, '%XX' of its byte otherwise
QuoteChar(c) ==
    IF c \in AlwaysSafe \cup {"/"} THEN <<c>>
    ELSE <<"%", HexDigits[(Ord(c) \div 16) + 1], HexDigits[(Ord(c) % 16) + 1]>>

RECURSIVE Quote(_)
\* _uriquote(v)
Quote(cs) == IF cs = <<>> THEN <<>> ELSE QuoteChar(Head(cs)) \o Quote(Tail(cs))

RECURSIVE Decimal(_)
\* str(n) for an int n
Decimal(n) ==
    IF n < 0 THEN <<"-">> \o Decimal(-n)
    ELSE IF n < 10 THEN <<HexDigits[n + 1]>>
    ELSE Decimal(n \div 10) \o <<HexDigits[(n % 10) + 1]>>

\* {k: _uriquote(v) if isinstance(v, str) else v for k, v in parameters.items()}
QuotedParameters(kw) ==
    [k \in DOMAIN kw |-> IF kw[k].t = "str" THEN StrValue(Quote(kw[k].s)) ELSE kw[k]]

\* What str.format puts in place of a field whose value is v
Formatted(v) == IF v.t = "str" THEN v.s ELSE Decimal(v.i)

RECURSIVE FormatFrom(_, _, _)
\* str.format_map(kw) on the characters of cs from index i on: each {name} is
\* replaced by the value of name, and a name kw lacks raises KeyError (ok is FALSE)
FormatFrom(cs, i, kw) ==
    IF i > Len(cs) THEN [ok |-> TRUE, out |-> <<>>]
    ELSE IF cs[i] = "{"
    THEN LET j == CHOOSE k \in (i + 1)..Len(cs) :
                      cs[k] = "}" /\ \A m \in (i + 1)..(k - 1) : cs[m] # "}"
             name == SubSeq(cs, i + 1, j - 1)
         IN IF name \in DOMAIN kw
            THEN LET rest == FormatFrom(cs, j + 1, kw)
                 IN [ok |-> rest.ok, out |-> Formatted(kw[name]) \o rest.out]
            ELSE [ok |-> FALSE, out |-> <<>>]
    ELSE LET rest == FormatFrom(cs, i + 1, kw)
         IN [ok |-> rest.ok, out |-> <<cs[i]>> \o rest.out]

NoRoute == [path |-> <<>>, parameters |-> <<>>]

NoUrl == [kind |-> "none", exc |-> "", base |-> <<>>, chars |-> <<>>]

\* Route.url(base) on the Route r
RouteUrl(r, base) ==
    LET u == base \o r.path
    IN IF DOMAIN r.parameters # {}
       THEN LET f == FormatFrom(u, 1, QuotedParameters(r.parameters))
            IN IF f.ok
               THEN [kind |-> "return", exc |-> "", base |-> base, chars |-> f.out]
               ELSE [kind |-> "raise", exc |-> "KeyError", base |-> base, chars |-> <<>>]
       ELSE [kind |-> "return", exc |-> "", base |-> base, chars |-> u]

\* The pieces a path template is written from: literal text and placeholders
Lit(cs) == [ph |-> FALSE, cs |-> cs]

Placeholder(name) == [ph |-> TRUE, cs |-> name]

RECURSIVE PathOf(_)
\* The path template the pieces spell
PathOf(parts) ==
    IF parts = <<>> THEN <<>>
    ELSE (IF Head(parts).ph THEN <<"{">> \o Head(parts).cs \o <<"}">> ELSE Head(parts).cs)
         \o PathOf(Tail(parts))

user_path == <<"u", "s", "e", "r", "_", "p", "a", "t", "h">>

chat_id == <<"c", "h", "a", "t", "_", "i", "d">>

message_id == <<"m", "e", "s", "s", "a", "g", "e", "_", "i", "d">>

\* '/regions', '/streams/{user_path}', '/chat/{chat_id}/messages/{message_id}'
PathTemplates ==
    { <<Lit(<<"/", "r", "e", "g", "i", "o", "n", "s">>)>>,
      <<Lit(<<"/", "s", "t", "r", "e", "a", "m", "s", "/">>), Placeholder(user_path)>>,
      <<Lit(<<"/", "c", "h", "a", "t", "/">>), Placeholder(chat_id),
        Lit(<<"/", "m", "e", "s", "s", "a", "g", "e", "s", "/">>), Placeholder(message_id)>> }

ParameterNames == {user_path, chat_id, message_id}

\* 'foo bar', 'a/b', '50%', 7 and 42
ParameterValues ==
    { StrValue(<<"f", "o", "o", " ", "b", "a", "r">>),
      StrValue(<<"a", "/", "b">>),
      StrValue(<<"5", "0", "%">>),
      IntValue(7),
      IntValue(42) }

\* The **parameters a Route is built with: any names, the empty mapping too
ParameterMaps ==
    UNION {[names -> ParameterValues] : names \in SUBSET ParameterNames}

\* Route.DEFAULT_BASE and a local base
Bases ==
    { <<"h", "t", "t", "p", "s", ":", "/", "/", "a", "p", "i", ".", "l", "i", "g",
          "h", "t", "s", "p", "e", "e", "d", ".", "t", "v">>,
      <<"h", "t", "t", "p", ":", "/", "/", "h", ":", "8", "0", "8", "0">> }

\* Route(method, path, **parameters)
NewRoute(parts, kw) ==
    /\ route = NoRoute
    /\ route' = [path |-> PathOf(parts), parameters |-> kw]
    /\ route_parts' = parts
    /\ url' = NoUrl
    /\ UNCHANGED <<session, pools, token, max_ratelimit_timeout, max_arg, pc, tries, response, data,
                   sleeping, result, login_pc, old_token, login_token, login_result,
                   attempts, sleeps, only_transient, ratelimits, closeVars, headerVars, clientVars, calls>>

\* route.url(base)
UrlCall(base) ==
    /\ route # NoRoute
    /\ url = NoUrl
    /\ url' = RouteUrl(route, base)
    /\ UNCHANGED <<session, pools, token, max_ratelimit_timeout, max_arg, pc, tries, response, data,
                   sleeping, result, login_pc, old_token, login_token, login_result,
                   attempts, sleeps, only_transient, ratelimits, closeVars, headerVars, clientVars, calls, route,
                   route_parts>>

\* --------------------------------------------------------------- outcomes
\* How a call ended.  kind is "none" while it has not, "return" or "raise";
\* exc is the class of the error, status and data are HTTPException.status
\* and the message it was built from, retry_after is RateLimited.retry_after.

NoResult ==
    [kind |-> "none", exc |-> "", status |-> 0, data |-> PyNone,
     retry_after |-> Float(0)]

Return(d) ==
    [kind |-> "return", exc |-> "", status |-> 0, data |-> d, retry_after |-> Float(0)]

\* HTTPException.__init__ and its subclasses: status is response.status
RaiseHTTP(cls, resp, d) ==
    [kind |-> "raise", exc |-> cls, status |-> resp.status, data |-> d,
     retry_after |-> Float(0)]

\* RateLimited.__init__
RaiseRateLimited(ra) ==
    [kind |-> "raise", exc |-> "RateLimited", status |-> 0, data |-> PyNone,
     retry_after |-> ra]

\* An error of Python itself (KeyError, TypeError, AttributeError) or LoginFailure
RaiseOther(cls) ==
    [kind |-> "raise", exc |-> cls, status |-> 0, data |-> PyNone,
     retry_after |-> Float(0)]

\* HTTPException and its subclasses (what `except HTTPException` catches)
HTTPExceptions == {"HTTPException", "Forbidden", "NotFound", "LightspeedServerError"}

\* LightspeedException and its subclasses
Taxonomy == HTTPExceptions \cup {"RateLimited", "LoginFailure", "ClientException"}

\* ---------------------------------------------------------------- Client
\* Client.user has not been read since the last Client.login
Unread == [type |-> "unread", str |-> "", keys |-> {}, retry_after |-> 0]

\* ClientUser(state=..., data=d): PartialUser.__init__ calls d.get and
\* subscripts d['path'] and d['username']
ClientUserNew(d) ==
    IF d.type # "dict" THEN RaiseOther("AttributeError")
    ELSE IF ~({"path", "username"} \subseteq d.keys) THEN RaiseOther("KeyError")
    ELSE Return([d EXCEPT !.type = "ClientUser"])

\* The value Client.user gives: the body of the property is its docstring
\* alone, so it returns None whatever _connection.user holds
ClientUserProperty(user) == PyNone

\* token arguments of Client.login: None, strings, and an int
TokenArgs ==
    { [t |-> "NoneType", s |-> ""],
      [t |-> "str", s |-> "abc"],
      [t |-> "str", s |-> " xyz "],
      [t |-> "int", s |-> ""] }

\* token.strip()
Strip(tok) == IF tok = " xyz " THEN "xyz" ELSE tok

\* ------------------------------------------------------ concurrent callers
\* Tasks of one event loop that call the same HTTPClient
Callers == {"A", "B"}

\* The locals of a call of request, and of the static_login around it when
\* there is one; responses and delays are the history of the call
NoCall ==
    [kind |-> "none", pc |-> "idle", tries |-> 0, response |-> NoResponse,
     data |-> PyNone, result |-> NoResult, responses |-> <<>>, delays |-> <<>>,
     old_token |-> None, login_token |-> None, login_pc |-> "idle",
     login_result |-> NoResult]

\* ------------------------------------------------------------ __init__

\* max(30.0, max_ratelimit_timeout) if max_ratelimit_timeout else None
Truthy(x) == x # NoFloat /\ ~Eq(x, Float(0))

StoredMax(arg) ==
    IF Truthy(arg)
    THEN (IF Gt(arg, Float(RatelimitFloor)) THEN arg ELSE Float(RatelimitFloor))
    ELSE NoFloat

Init ==
    /\ session = MISSING
    /\ pools = <<>>
    /\ token = None
    /\ max_arg \in MaxArgs
    /\ max_ratelimit_timeout = StoredMax(max_arg)
    /\ pc = "idle"
    /\ tries = 0
    /\ response = NoResponse
    /\ data = PyNone
    /\ sleeping = Float(0)
    /\ result = NoResult
    /\ login_pc = "idle"
    /\ old_token = None
    /\ login_token = None
    /\ login_result = NoResult
    /\ attempts = 0
    /\ sleeps = 0
    /\ only_transient = TRUE
    /\ closes = <<>>
    /\ close_streak = 0
    /\ reclosed = FALSE
    /\ close_result = NoResult
    /\ headers = NoHeaders
    /\ sent_json = FALSE
    /\ route = NoRoute
    /\ route_parts = <<>>
    /\ url = NoUrl
    /\ ratelimits = 0
    /\ client_pc = "idle"
    /\ client_result = NoResult
    /\ connection_user = PyNone
    /\ user_seen = Unread
    /\ calls = [c \in Callers |-> NoCall]

\* ------------------------------------------------------ request: the loop

\* Mutation of IsSuccess: only 200 counts
IsSuccess_Only200(status) == status = 200

\* 300 > response.status >= 200
IsSuccess(status) == 300 > status /\ status >= 200

\* Mutation of IsTransient: 524 is left out
IsTransient_No524(status) == status \in {502, 504}

\* response.status in (502, 504, 524)
IsTransient(status) == status \in {502, 504, 524}

\* Mutation of TransientDelay: the step is 1 second, not 2
TransientDelay_StepOne(t) == Float(1 + t)

\* Mutation of TransientDelay: the index counts the transient attempts only
TransientDelay_OwnIndex(t) == Float(1 + (t - ratelimits) * 2)

\* asyncio.sleep(1 + tries * 2)
TransientDelay(t) == Float(1 + t * 2)

\* retry_after = data['retry_after'] / 1000
RetryAfter(d) == Div(Float(d.retry_after), 1000)

\* Mutation of TooLong: >= in place of >
TooLong_AtLeast(retry_after, max) == Truthy(max) /\ ~Gt(max, retry_after)

\* Mutation of TooLong: with no maximum configured every wait is too long
TooLong_Unconfigured(retry_after, max) == ~Truthy(max) \/ Gt(retry_after, max)

\* self.max_ratelimit_timeout and retry_after > self.max_ratelimit_timeout
TooLong(retry_after, max) == Truthy(max) /\ Gt(retry_after, max)

\* The error data['retry_after'] raises, "" when it raises none
SubscriptError(d) ==
    CASE d.type = "dict" /\ "retry_after" \in d.keys -> ""
      [] d.type = "dict" -> "KeyError"
      [] OTHER -> "TypeError"

\* Mutation of FatalClass: > 500 in place of >= 500
FatalClass_Above500(status) ==
    IF status = 403 THEN "Forbidden"
    ELSE IF status = 404 THEN "NotFound"
    ELSE IF status > 500 THEN "LightspeedServerError"
    ELSE "HTTPException"

\* The usual error cases
FatalClass(status) ==
    IF status = 403 THEN "Forbidden"
    ELSE IF status = 404 THEN "NotFound"
    ELSE IF status >= 500 THEN "LightspeedServerError"
    ELSE "HTTPException"

\* Mutation of ExhaustedClass: out of retries is always a server error
ExhaustedClass_AlwaysServer(status) == "LightspeedServerError"

\* Out of retries
ExhaustedClass(status) ==
    IF status >= 500 THEN "LightspeedServerError" ELSE "HTTPException"

\* The loop body from the response on: <<pc, sleeping, result>> after it
Classify(resp, d, t, max) ==
    IF IsSuccess(resp.status) THEN <<"returned", sleeping, Return(d)>>
    ELSE IF resp.status = 429 THEN
        IF d.type = "str" THEN <<"raised", sleeping, RaiseHTTP("HTTPException", resp, d)>>
        ELSE IF SubscriptError(d) # "" THEN <<"raised", sleeping, RaiseOther(SubscriptError(d))>>
        ELSE IF TooLong(RetryAfter(d), max)
             THEN <<"raised", sleeping, RaiseRateLimited(RetryAfter(d))>>
             ELSE <<"sleep", RetryAfter(d), NoResult>>
    ELSE IF IsTransient(resp.status) THEN <<"sleep", TransientDelay(t), NoResult>>
    ELSE <<"raised", sleeping, RaiseHTTP(FatalClass(resp.status), resp, d)>>

\* No call of the client is in progress
Idle == login_pc # "get_me" /\ pc \in {"idle", "returned", "raised"}

\* A call other than close() ends the streak of close() calls
NotAClose ==
    /\ close_streak' = 0
    /\ reclosed' = FALSE
    /\ close_result' = NoResult

\* request's prologue, up to the loop
BeginRequest ==
    /\ pc' = "attempt"
    /\ tries' = 0
    /\ response' = NoResponse
    /\ data' = PyNone
    /\ sleeping' = Float(0)
    /\ result' = NoResult
    /\ attempts' = 0
    /\ sleeps' = 0
    /\ only_transient' = TRUE
    /\ ratelimits' = 0

\* A collaborator calls request(route, headers=extra, json=...)
RequestCallWith(extra, json) ==
    /\ Idle
    /\ BeginRequest
    /\ headers' = BuildHeaders(extra, json, token)
    /\ sent_json' = json
    /\ login_pc' = "idle"
    /\ login_result' = NoResult
    /\ NotAClose
    /\ UNCHANGED <<session, pools, token, max_ratelimit_timeout, max_arg, old_token, login_token,
                   closes, routeVars, clientVars, calls>>

\* A collaborator calls request(route)
RequestCall == RequestCallWith(NoHeaders, FALSE)

\* self.__session.request(...) on the MISSING sentinel
AttemptUnstarted ==
    /\ pc = "attempt"
    /\ session = MISSING
    /\ pc' = "raised"
    /\ result' = RaiseOther("AttributeError")
    /\ UNCHANGED <<session, pools, token, max_ratelimit_timeout, max_arg, tries, response, data,
                   sleeping, login_pc, old_token, login_token, login_result,
                   attempts, sleeps, only_transient, ratelimits, closeVars, headerVars, routeVars, clientVars, calls>>

\* One iteration of the loop: the transport call, json_or_text, and the
\* branch taken, up to the return, the raise or the sleep
Attempt(resp) ==
    /\ pc = "attempt"
    /\ session # MISSING
    /\ pools[session] = "open"
    /\ LET d == json_or_text(resp)
           c == Classify(resp, d, tries, max_ratelimit_timeout)
       IN /\ response' = resp
          /\ data' = d
          /\ pc' = c[1]
          /\ sleeping' = c[2]
          /\ result' = c[3]
          /\ sleeps' = IF c[1] = "sleep" THEN sleeps + 1 ELSE sleeps
    /\ attempts' = attempts + 1
    /\ only_transient' = (only_transient /\ IsTransient(resp.status))
    /\ ratelimits' = IF resp.status = 429
                          /\ Classify(resp, json_or_text(resp), tries,
                                      max_ratelimit_timeout)[1] = "sleep"
                      THEN ratelimits + 1
                      ELSE ratelimits
    /\ UNCHANGED <<session, pools, token, max_ratelimit_timeout, max_arg, tries,
                   login_pc, old_token, login_token, login_result, closeVars,
                   headerVars, routeVars, clientVars, calls>>

\* self.__session.request(...) on a pool that close() has closed: aiohttp
\* raises RuntimeError('Session is closed')
AttemptClosed ==
    /\ pc = "attempt"
    /\ session # MISSING
    /\ pools[session] = "closed"
    /\ pc' = "raised"
    /\ result' = RaiseOther("RuntimeError")
    /\ UNCHANGED <<session, pools, token, max_ratelimit_timeout, max_arg, tries, response, data,
                   sleeping, login_pc, old_token, login_token, login_result,
                   attempts, sleeps, only_transient, ratelimits, closeVars, headerVars, routeVars, clientVars, calls>>

\* Mutation of Continue: a rate-limit wait does not use up an attempt
Continue_RateLimitFree ==
    /\ pc = "sleep"
    /\ IF response.status = 429
       THEN /\ tries' = tries
            /\ pc' = "attempt"
            /\ result' = result
       ELSE IF tries + 1 < MaxTries
       THEN /\ tries' = tries + 1
            /\ pc' = "attempt"
            /\ result' = result
       ELSE /\ tries' = tries
            /\ pc' = "raised"
            /\ result' = RaiseHTTP(ExhaustedClass(response.status), response, data)
    /\ UNCHANGED <<session, pools, token, max_ratelimit_timeout, max_arg, response, data,
                   sleeping, login_pc, old_token, login_token, login_result,
                   attempts, sleeps, only_transient, ratelimits, closeVars, headerVars, routeVars, clientVars, calls>>

\* The sleep is over: `continue`.  The next iteration starts, or the loop is
\* over and the error of the last response is raised.
Continue ==
    /\ pc = "sleep"
    /\ IF tries + 1 < MaxTries
       THEN /\ tries' = tries + 1
            /\ pc' = "attempt"
            /\ result' = result
       ELSE /\ tries' = tries
            /\ pc' = "raised"
            /\ result' = RaiseHTTP(ExhaustedClass(response.status), response, data)
    /\ UNCHANGED <<session, pools, token, max_ratelimit_timeout, max_arg, response, data,
                   sleeping, login_pc, old_token, login_token, login_result,
                   attempts, sleeps, only_transient, ratelimits, closeVars, headerVars, routeVars, clientVars, calls>>

\* ------------------------------------------------------ session lifecycle

\* startup(): a new aiohttp.ClientSession fills __session
NewPool ==
    /\ pools' = Append(pools, "open")
    /\ closes' = Append(closes, 0)
    /\ session' = Len(pools) + 1

Startup ==
    /\ Idle
    /\ Len(pools) < MaxPools
    /\ NewPool
    /\ NotAClose
    /\ UNCHANGED <<token, max_ratelimit_timeout, max_arg, pc, tries, response, data, sleeping,
                   result, login_pc, old_token, login_token, login_result,
                   attempts, sleeps, only_transient, ratelimits, headerVars, routeVars, clientVars, calls>>

\* static_login(t) up to `await self.get_me()`
StaticLoginBegin(t) ==
    /\ Idle
    /\ Len(pools) < MaxPools
    /\ NewPool
    /\ old_token' = token
    /\ token' = t
    /\ login_token' = t
    /\ login_pc' = "get_me"
    /\ login_result' = NoResult
    /\ BeginRequest
    /\ headers' = BuildHeaders(NoHeaders, FALSE, t)
    /\ sent_json' = FALSE
    /\ NotAClose
    /\ UNCHANGED <<max_ratelimit_timeout, max_arg, routeVars>>

\* A collaborator calls static_login(t)
StaticLoginCall(t) == StaticLoginBegin(t) /\ UNCHANGED <<clientVars, calls>>

\* Mutation of AfterGetMe: the handler catches every LightspeedException
AfterGetMe_CatchTaxonomy(r, tok, old) ==
    IF r.kind = "return" THEN <<tok, r>>
    ELSE IF r.exc \in Taxonomy
         THEN <<old, IF r.status = 401 THEN RaiseOther("LoginFailure") ELSE r>>
         ELSE <<tok, r>>

\* Mutation of AfterGetMe: the token is not put back
AfterGetMe_NoRollback(r, tok, old) ==
    IF r.kind = "return" THEN <<tok, r>>
    ELSE IF r.exc \in HTTPExceptions
         THEN <<tok, IF r.status = 401 THEN RaiseOther("LoginFailure") ELSE r>>
         ELSE <<tok, r>>

\* Mutation of AfterGetMe: the token is put back only on a 401
AfterGetMe_RollbackOn401(r, tok, old) ==
    IF r.kind = "return" THEN <<tok, r>>
    ELSE IF r.exc \in HTTPExceptions
         THEN IF r.status = 401 THEN <<old, RaiseOther("LoginFailure")>> ELSE <<tok, r>>
         ELSE <<tok, r>>

\* Mutation of AfterGetMe: the token is put back on every path (try/finally)
AfterGetMe_AlwaysRollback(r, tok, old) ==
    IF r.kind = "return" THEN <<old, r>>
    ELSE IF r.exc \in HTTPExceptions
         THEN <<old, IF r.status = 401 THEN RaiseOther("LoginFailure") ELSE r>>
         ELSE <<old, r>>

\* What static_login does with the outcome r of get_me():
\* <<token, login_result>> after it
AfterGetMe(r, tok, old) ==
    IF r.kind = "return" THEN <<tok, r>>
    ELSE IF r.exc \in HTTPExceptions
         THEN <<old, IF r.status = 401 THEN RaiseOther("LoginFailure") ELSE r>>
         ELSE <<tok, r>>

\* static_login from the end of get_me() on
StaticLoginReturn ==
    /\ login_pc = "get_me"
    /\ pc \in {"returned", "raised"}
    /\ LET a == AfterGetMe(result, token, old_token)
       IN /\ token' = a[1]
          /\ login_result' = a[2]
    /\ login_pc' = "done"
    /\ UNCHANGED <<session, pools, max_ratelimit_timeout, max_arg, pc, tries, response, data,
                   sleeping, result, old_token, login_token, attempts, sleeps,
                   only_transient, ratelimits, closeVars, headerVars, routeVars, user_seen, calls>>
    /\ IF client_pc = "static_login"
       THEN LET r == AfterGetMe(result, token, old_token)[2]
                u == ClientUserNew(r.data)
            IN /\ client_pc' = "idle"
               /\ client_result' = IF r.kind # "return" THEN r
                                    ELSE IF u.kind # "return" THEN u
                                    ELSE Return(PyNone)
               /\ connection_user' = IF r.kind = "return" /\ u.kind = "return"
                                      THEN u.data
                                      ELSE connection_user
       ELSE UNCHANGED <<client_pc, client_result, connection_user>>

\* Client.login(token)
ClientLogin(arg) ==
    /\ Idle
    /\ user_seen' = Unread
    /\ IF arg.t = "NoneType"
       THEN /\ Len(pools) < MaxPools
            /\ NewPool
            /\ NotAClose
            /\ client_pc' = "idle"
            /\ client_result' = Return(PyNone)
            /\ UNCHANGED <<token, max_ratelimit_timeout, max_arg, pc, tries, response,
                           data, sleeping, result, login_pc, old_token, login_token,
                           login_result, attempts, sleeps, only_transient, ratelimits,
                           headerVars, routeVars, connection_user, calls>>
       ELSE IF arg.t # "str"
       THEN /\ client_pc' = "idle"
            /\ client_result' = RaiseOther("TypeError")
            /\ NotAClose
            /\ UNCHANGED <<session, pools, token, max_ratelimit_timeout, max_arg, pc,
                           tries, response, data, sleeping, result, login_pc, old_token,
                           login_token, login_result, attempts, sleeps, only_transient,
                           ratelimits, closes, headerVars, routeVars, connection_user, calls>>
       ELSE /\ StaticLoginBegin(Strip(arg.s))
            /\ client_pc' = "static_login"
            /\ client_result' = NoResult
            /\ UNCHANGED <<connection_user, calls>>

\* A collaborator reads Client.user
UserGet ==
    /\ Idle
    /\ user_seen' = ClientUserProperty(connection_user)
    /\ UNCHANGED <<session, pools, token, max_ratelimit_timeout, max_arg, pc, tries,
                   response, data, sleeping, result, login_pc, old_token, login_token,
                   login_result, attempts, sleeps, only_transient, ratelimits, closeVars,
                   headerVars, routeVars, client_pc, client_result, connection_user, calls>>

\* ------------------------------------------------------ concurrent callers
\* What a concurrent caller leaves alone: the state of the single caller
soloVars ==
    <<pc, tries, response, data, sleeping, result, login_pc, old_token, login_token,
      login_result, attempts, sleeps, only_transient, ratelimits, closeVars, headerVars,
      routeVars, clientVars>>

\* Caller c calls request(route): the prologue, up to the loop
TaskRequestCall(c) ==
    /\ calls[c].pc = "idle"
    /\ calls' = [calls EXCEPT ![c] = [NoCall EXCEPT !.kind = "request", !.pc = "attempt"]]
    /\ UNCHANGED <<session, pools, token, max_ratelimit_timeout, max_arg, soloVars>>

\* self.__session.request(...) of caller c on the MISSING sentinel
TaskAttemptUnstarted(c) ==
    /\ calls[c].pc = "attempt"
    /\ session = MISSING
    /\ calls' = [calls EXCEPT ![c].pc = "raised",
                              ![c].result = RaiseOther("AttributeError")]
    /\ UNCHANGED <<session, pools, token, max_ratelimit_timeout, max_arg, soloVars>>

\* One iteration of the loop of caller c, as Attempt
TaskAttempt(c, resp) ==
    /\ calls[c].pc = "attempt"
    /\ session # MISSING
    /\ pools[session] = "open"
    /\ LET d == json_or_text(resp)
           cl == Classify(resp, d, calls[c].tries, max_ratelimit_timeout)
       IN calls' = [calls EXCEPT
                       ![c].response = resp,
                       ![c].data = d,
                       ![c].pc = cl[1],
                       ![c].result = cl[3],
                       ![c].responses = Append(@, resp),
                       ![c].delays = IF cl[1] = "sleep" THEN Append(@, cl[2]) ELSE @]
    /\ UNCHANGED <<session, pools, token, max_ratelimit_timeout, max_arg, soloVars>>

\* Mutation of TaskContinue: the loop variable is shared by the callers
TaskContinue_SharedTries(c) ==
    /\ calls[c].pc = "sleep"
    /\ calls' = [x \in Callers |->
                    IF x # c THEN [calls[x] EXCEPT !.tries = @ + 1]
                    ELSE IF calls[c].tries + 1 < MaxTries
                    THEN [calls[c] EXCEPT !.tries = @ + 1, !.pc = "attempt"]
                    ELSE [calls[c] EXCEPT
                             !.pc = "raised",
                             !.result = RaiseHTTP(ExhaustedClass(calls[c].response.status),
                                                  calls[c].response, calls[c].data)]]
    /\ UNCHANGED <<session, pools, token, max_ratelimit_timeout, max_arg, soloVars>>

\* The sleep of caller c is over, as Continue
TaskContinue(c) ==
    /\ calls[c].pc = "sleep"
    /\ calls' = [calls EXCEPT ![c] =
                    IF calls[c].tries + 1 < MaxTries
                    THEN [calls[c] EXCEPT !.tries = @ + 1, !.pc = "attempt"]
                    ELSE [calls[c] EXCEPT
                             !.pc = "raised",
                             !.result = RaiseHTTP(ExhaustedClass(calls[c].response.status),
                                                  calls[c].response, calls[c].data)]]
    /\ UNCHANGED <<session, pools, token, max_ratelimit_timeout, max_arg, soloVars>>

\* Caller c calls static_login(t): up to the first attempt of get_me()
TaskLoginCall(c, t) ==
    /\ calls[c].pc = "idle"
    /\ Len(pools) < MaxPools
    /\ NewPool
    /\ token' = t
    /\ calls' = [calls EXCEPT ![c] =
                    [NoCall EXCEPT !.kind = "login", !.pc = "attempt",
                                   !.old_token = token, !.login_token = t,
                                   !.login_pc = "get_me"]]
    /\ UNCHANGED <<max_ratelimit_timeout, max_arg, pc, tries, response, data, sleeping,
                   result, login_pc, old_token, login_token, login_result, attempts,
                   sleeps, only_transient, ratelimits, close_streak, reclosed,
                   close_result, headerVars, routeVars, clientVars>>

\* static_login of caller c from the end of its get_me() on
TaskLoginReturn(c) ==
    /\ calls[c].login_pc = "get_me"
    /\ calls[c].pc \in {"returned", "raised"}
    /\ LET a == AfterGetMe(calls[c].result, token, calls[c].old_token)
       IN /\ token' = a[1]
          /\ calls' = [calls EXCEPT ![c].login_result = a[2], ![c].login_pc = "done"]
    /\ UNCHANGED <<session, pools, max_ratelimit_timeout, max_arg, soloVars>>

\* Mutation of SessionTruthy: no test at all
SessionTruthy_Always(sess) == TRUE

\* Mutation of SessionTruthy: only a pool that is still open counts
SessionTruthy_OpenOnly(sess) == sess # MISSING /\ pools[sess] = "open"

\* `if self.__session`: MISSING is falsy (_MissingSentinel.__bool__), an
\* aiohttp.ClientSession is truthy, closed or not
SessionTruthy(sess) == sess # MISSING

\* close().  ClientSession.close() on a closed session does nothing and
\* raises nothing; MISSING has no close attribute.
Close ==
    /\ Idle
    /\ close_streak < MaxCloses
    /\ session # MISSING => closes[session] < MaxCloses
    /\ IF SessionTruthy(session)
       THEN IF session = MISSING
            THEN /\ close_result' = RaiseOther("AttributeError")
                 /\ reclosed' = FALSE
                 /\ UNCHANGED <<pools, closes>>
            ELSE /\ pools' = [pools EXCEPT ![session] = "closed"]
                 /\ closes' = [closes EXCEPT ![session] = @ + 1]
                 /\ reclosed' = (pools[session] = "closed")
                 /\ close_result' = Return(PyNone)
       ELSE /\ close_result' = Return(PyNone)
            /\ reclosed' = FALSE
            /\ UNCHANGED <<pools, closes>>
    /\ close_streak' = close_streak + 1
    /\ UNCHANGED <<session, token, max_ratelimit_timeout, max_arg, pc, tries, response, data,
                   sleeping, result, login_pc, old_token, login_token, login_result,
                   attempts, sleeps, only_transient, ratelimits, headerVars, routeVars, clientVars, calls>>

Next ==
    \/ RequestCall
    \/ AttemptUnstarted
    \/ \E resp \in Responses : Attempt(resp)
    \/ Continue
    \/ Startup
    \/ \E t \in Tokens : StaticLoginCall(t)
    \/ StaticLoginReturn

Spec == Init /\ [][Next]_vars

\* The session lifecycle with close(), over a transport that answers with
\* one response of each class
SessionResponses ==
    { [status |-> 200, ctype |-> "application/json", text |-> IdentityDoc],
      [status |-> 401, ctype |-> "application/json", text |-> IdentityDoc],
      [status |-> 403, ctype |-> "text/html", text |-> "error code: 1015"],
      [status |-> 502, ctype |-> None, text |-> "error code: 1015"] }

NextSession ==
    \/ \E extra \in ExtraHeaders, json \in BOOLEAN : RequestCallWith(extra, json)
    \/ AttemptUnstarted
    \/ AttemptClosed
    \/ \E resp \in SessionResponses : Attempt(resp)
    \/ Continue
    \/ Startup
    \/ \E t \in Tokens : StaticLoginCall(t)
    \/ StaticLoginReturn
    \/ Close

SpecSession == Init /\ [][NextSession]_vars

\* Routes and their URLs
NextRoute ==
    \/ \E parts \in PathTemplates, kw \in ParameterMaps : NewRoute(parts, kw)
    \/ \E base \in Bases : UrlCall(base)

SpecRoute == Init /\ [][NextRoute]_vars

\* The Client over its HTTPClient: the identity check is answered by a user
\* payload, by a payload without path and username, by 401, or by 502
ClientResponses ==
    { [status |-> 200, ctype |-> "application/json", text |-> UserDoc],
      [status |-> 200, ctype |-> "application/json", text |-> IdentityDoc],
      [status |-> 401, ctype |-> "application/json", text |-> IdentityDoc],
      [status |-> 502, ctype |-> None, text |-> "error code: 1015"] }

NextClient ==
    \/ \E arg \in TokenArgs : ClientLogin(arg)
    \/ UserGet
    \/ RequestCall
    \/ AttemptUnstarted
    \/ AttemptClosed
    \/ \E resp \in ClientResponses : Attempt(resp)
    \/ Continue
    \/ Startup
    \/ \E t \in Tokens : StaticLoginCall(t)
    \/ StaticLoginReturn
    \/ Close

SpecClient == Init /\ [][NextClient]_vars

\* Two callers with one request each, over a transport that answers with a
\* success, a rate limit of 30.001 seconds, a transient error or a fatal one
TwoResponses ==
    { [status |-> 200, ctype |-> "application/json", text |-> IdentityDoc],
      [status |-> 429, ctype |-> "application/json", text |-> RetryAfterDoc(30001)],
      [status |-> 502, ctype |-> None, text |-> "error code: 1015"],
      [status |-> 403, ctype |-> "text/html", text |-> "error code: 1015"] }

NextTwo ==
    \/ Startup
    \/ \E c \in Callers : TaskRequestCall(c)
    \/ \E c \in Callers : TaskAttemptUnstarted(c)
    \/ \E c \in Callers, resp \in TwoResponses : TaskAttempt(c, resp)
    \/ \E c \in Callers : TaskContinue(c)

SpecTwo == Init /\ [][NextTwo]_vars

\* Two callers with one static_login each; the identity check is accepted
\* or refused with 401
LoginResponses ==
    { [status |-> 200, ctype |-> "application/json", text |-> UserDoc],
      [status |-> 401, ctype |-> "application/json", text |-> IdentityDoc] }

NextLogins ==
    \/ \E c \in Callers, t \in Tokens : TaskLoginCall(c, t)
    \/ \E c \in Callers, resp \in LoginResponses : TaskAttempt(c, resp)
    \/ \E c \in Callers : TaskLoginReturn(c)

SpecLogins == Init /\ [][NextLogins]_vars

\* ------------------------------------------------------------- properties

\* The body of the last response as the classifier must decode it: parsed
\* when the content-type is exactly application/json, the raw text otherwise
DecodedBody ==
    IF response.ctype = "application/json"
    THEN FromJson(response.text)
    ELSE PyStr(response.text)

\* The last attempt was not followed by a sleep
NoSleepAfterLast == sleeps = attempts - 1

\* C1: one call of HTTPClient.request issues at most 5 transport attempts,
\* and issues none once it has returned or raised.
C1_AtMostFiveAttempts ==
    /\ attempts <= 5
    /\ pc \in {"returned", "raised"} => ~ENABLED (\E resp \in Responses : Attempt(resp))

C1_Witness == pc = "raised" /\ attempts = 5

\* C2: an attempt that receives a status in [200,300) makes request return
\* the decoded body of that response, with no sleep and no further attempt.
C2_SuccessReturnsBody ==
    (attempts > 0 /\ response.status >= 200 /\ response.status < 300) =>
        /\ pc = "returned"
        /\ result = Return(DecodedBody)
        /\ NoSleepAfterLast

C2_Witness ==
    /\ pc = "returned"
    /\ response.status = 204
    /\ response.ctype = "application/json"
    /\ result.data = PyDict({"id"}, 0)
    /\ attempts = 3

\* C3: a response with status 403, 404, >= 500 outside {502, 504, 524}, or
\* any other non-2xx status other than 429 makes request raise Forbidden,
\* NotFound, LightspeedServerError or HTTPException respectively, built from
\* that response, with no sleep and no further attempt.
C3_ExpectedClass ==
    CASE response.status = 403 -> "Forbidden"
      [] response.status = 404 -> "NotFound"
      [] response.status >= 500 -> "LightspeedServerError"
      [] OTHER -> "HTTPException"

C3_FatalRaisesAtOnce ==
    (/\ attempts > 0
     /\ ~(response.status >= 200 /\ response.status < 300)
     /\ response.status # 429
     /\ response.status \notin {502, 504, 524}) =>
        /\ pc = "raised"
        /\ result.kind = "raise"
        /\ result.exc = C3_ExpectedClass
        /\ result.status = response.status
        /\ result.data = DecodedBody
        /\ NoSleepAfterLast

C3_Witness ==
    /\ pc = "raised"
    /\ attempts = 1
    /\ sleeps = 0
    /\ response.status = 500
    /\ result.exc = "LightspeedServerError"

\* C4: while every response of a request is a 502, 504 or 524, attempt i
\* (0-indexed) is followed by a sleep of exactly 1 + 2*i seconds, and after
\* 5 attempts LightspeedServerError is raised from the last response.
C4_TransientBackoff ==
    (attempts > 0 /\ only_transient) =>
        /\ pc \in {"sleep", "attempt", "raised"}
        /\ sleeps = attempts
        /\ Eq(sleeping, Float(1 + 2 * (attempts - 1)))
        /\ pc = "raised" =>
            /\ attempts = 5
            /\ result.kind = "raise"
            /\ result.exc = "LightspeedServerError"
            /\ result.status = response.status
            /\ result.data = DecodedBody

C4_Witness ==
    /\ only_transient
    /\ pc = "raised"
    /\ attempts = 5
    /\ Eq(sleeping, Float(9))
    /\ response.status = 524

\* The last response is a 429 whose body is structured and contains retry_after
RateLimitedWithRetryAfter ==
    /\ attempts > 0
    /\ response.status = 429
    /\ response.ctype = "application/json"
    /\ \E n \in RetryAfters : response.text = RetryAfterDoc(n)

\* retry_after / 1000 of the last response, in seconds
RequiredWait ==
    LET n == CHOOSE n \in RetryAfters : response.text = RetryAfterDoc(n)
    IN <<n, 1000>>

\* The required wait exceeds the configured maximum
ExceedsMaximum ==
    max_ratelimit_timeout # NoFloat /\ Gt(RequiredWait, max_ratelimit_timeout)

\* RateLimited carrying the required wait is raised at once: no sleep follows
C5_RateLimitedRaised ==
    /\ pc = "raised"
    /\ result.kind = "raise"
    /\ result.exc = "RateLimited"
    /\ Eq(result.retry_after, RequiredWait)
    /\ NoSleepAfterLast

\* The request sleeps for the required wait and goes on to another attempt
C5_SleepsAndRetries ==
    /\ pc \in {"sleep", "attempt"}
    /\ sleeps = attempts
    /\ Eq(sleeping, RequiredWait)

\* The request slept for the required wait after its 5th attempt and raised
\* the error of exhausted retries from that response
C5_SleptAndExhausted ==
    /\ pc = "raised"
    /\ attempts = 5
    /\ sleeps = attempts
    /\ Eq(sleeping, RequiredWait)
    /\ result = RaiseHTTP("HTTPException", response, DecodedBody)

\* C5 as stated: a 429 with a structured body containing retry_after makes
\* request sleep retry_after/1000 seconds and retry, unless that wait exceeds
\* max_ratelimit_timeout, and then RateLimited with that wait is raised at once.
C5_AsStated ==
    RateLimitedWithRetryAfter =>
        IF ExceedsMaximum THEN C5_RateLimitedRaised ELSE C5_SleepsAndRetries

\* C5 amended: as stated, except that on the 5th attempt the sleep is
\* followed by no retry: HTTPException is raised from that 429 response.
C5_RateLimitWait ==
    RateLimitedWithRetryAfter =>
        IF ExceedsMaximum
        THEN C5_RateLimitedRaised
        ELSE IF attempts < 5 THEN C5_SleepsAndRetries
             ELSE (pc = "sleep" /\ C5_SleepsAndRetries) \/ C5_SleptAndExhausted

C5_Witness ==
    /\ RateLimitedWithRetryAfter
    /\ max_ratelimit_timeout = Float(30)
    /\ response.text = RetryAfterDoc(30000)
    /\ pc = "attempt"
    /\ attempts = 2
    /\ Eq(sleeping, Float(30))

\* C6: a 429 whose body is not structured (no application/json content-type)
\* makes request raise HTTPException at once, built from the raw text, with
\* no sleep and no retry, whether or not max_ratelimit_timeout is set.
C6_PlainTextRateLimit ==
    (attempts > 0 /\ response.status = 429 /\ response.ctype # "application/json") =>
        /\ pc = "raised"
        /\ result = RaiseHTTP("HTTPException", response, PyStr(response.text))
        /\ NoSleepAfterLast

C6_Witness ==
    /\ pc = "raised"
    /\ response.status = 429
    /\ response.ctype = "application/json; charset=utf-8"
    /\ response.text = RetryAfterDoc(1500)
    /\ max_ratelimit_timeout # NoFloat
    /\ result.exc = "HTTPException"
    /\ attempts = 2

\* All 5 attempts of the request ended in a looping branch
RetriesExhausted == pc = "raised" /\ attempts = 5 /\ sleeps = 5

\* C7: when all 5 attempts end in a looping branch, the error raised is
\* LightspeedServerError if the status of the 5th response is >= 500 and
\* HTTPException otherwise, and carries the status and body of that response.
C7_ExhaustedByLastStatus ==
    RetriesExhausted =>
        /\ result.kind = "raise"
        /\ result.exc = (IF response.status >= 500 THEN "LightspeedServerError"
                                                   ELSE "HTTPException")
        /\ result.status = response.status
        /\ result.data = DecodedBody

\* A 5xx last response after an earlier 429
C7_Witness ==
    /\ RetriesExhausted
    /\ ~only_transient
    /\ response.status = 502
    /\ result.exc = "LightspeedServerError"
    /\ result.status = 502

\* The last response is a transient outcome: a 502, 504 or 524, or a 429
\* with retry_after within the wait budget
LastOutcomeTransient ==
    \/ attempts > 0 /\ response.status \in {502, 504, 524}
    \/ RateLimitedWithRetryAfter /\ ~ExceedsMaximum

\* C8: a transient outcome reaches the caller only when the retry budget is
\* exhausted; a 2xx that follows fewer than 5 transient outcomes is returned
\* and nothing is raised.
C8_TransientNotObserved ==
    /\ (result.kind = "raise" /\ LastOutcomeTransient) => (attempts = 5 /\ sleeps = 5)
    /\ (attempts > 0 /\ response.status >= 200 /\ response.status < 300) =>
           (result.kind = "return" /\ result.data = DecodedBody)

\* A 2xx on the 5th attempt, after four transient outcomes
C8_Witness ==
    /\ pc = "returned"
    /\ attempts = 5
    /\ sleeps = 4
    /\ result.kind = "return"

\* C9: a call of request on a started Session that issued an attempt ends
\* by returning a decoded body or by raising an error of the taxonomy.
C9_TaxonomyErrorOnly ==
    (pc = "raised" /\ attempts > 0) => result.exc \in Taxonomy

\* C10: static_login(t) whose identity check receives a 401 restores the
\* token to the value it had before the call and raises LoginFailure.
C10_Login401RollsBack ==
    (login_pc = "done" /\ response.status = 401) =>
        /\ token = old_token
        /\ login_result.kind = "raise"
        /\ login_result.exc = "LoginFailure"

\* A second login fails after a first one succeeded
C10_Witness ==
    /\ login_pc = "done"
    /\ response.status = 401
    /\ login_token = "xyz"
    /\ old_token = "abc"
    /\ token = "abc"
    /\ login_result.exc = "LoginFailure"

\* The identity check of a finished static_login ended in a fatal outcome
\* other than 401: a 403, a 404, a 5xx, another 4xx or exhausted retries
LoginFatalNot401 ==
    /\ login_pc = "done"
    /\ attempts > 0
    /\ pc = "raised"
    /\ result.exc \in {"HTTPException", "Forbidden", "NotFound", "LightspeedServerError"}
    /\ response.status # 401

C12_LoginSuccess ==
    (login_pc = "done" /\ attempts > 0 /\ response.status >= 200 /\ response.status < 300) =>
        /\ token = login_token
        /\ login_result = Return(DecodedBody)

\* A login with "xyz" succeeds over an installed "abc", after one retry
C12_Witness ==
    /\ login_pc = "done"
    /\ response.status = 200
    /\ response.ctype = "application/json"
    /\ attempts = 2
    /\ old_token = "abc"
    /\ token = "xyz"
    /\ login_result.data = PyDict({"id"}, 0)

\* C13: startup() is idempotent: after any sequence of startup() and login
\* calls on one Session exactly one connection pool has been created for it.
C13_ExactlyOnePool ==
    /\ Len(pools) <= 1
    /\ session # MISSING => Len(pools) = 1

\* C14: the connection pool exists before any request is issued: a request
\* on a Session that was never started creates the pool on that first use
\* and then proceeds to the transport call.
C14_PoolBeforeRequest ==
    pc \in {"sleep", "returned", "raised"} => (session # MISSING /\ attempts >= 1)

\* close() has just been called twice in a row on a started Session
ClosedTwiceInARow == session # MISSING /\ close_streak >= 2

\* C15 as stated: calling close() twice in a row on a started Session does
\* not raise, and the second call does not attempt to close the already
\* closed pool: the pool's close operation is invoked exactly once.
C15_AsStated ==
    ClosedTwiceInARow =>
        /\ close_result.kind = "return"
        /\ ~reclosed
        /\ closes[session] = 1

\* C15 amended: calling close() twice in a row on a started Session does not
\* raise and leaves the pool closed; the second call invokes the close
\* operation of the already closed pool again, so it is invoked at least twice.
C15_CloseTwice ==
    ClosedTwiceInARow =>
        /\ close_result.kind = "return"
        /\ pools[session] = "closed"
        /\ reclosed
        /\ closes[session] >= 2

C15_Witness ==
    /\ ClosedTwiceInARow
    /\ close_result.kind = "return"
    /\ token = "abc"
    /\ closes[session] = 2

\* C16: close() on a Session that was never started is a no-op: it raises
\* nothing, closes nothing and changes no field of the Session.
C16_CloseUnstartedNoOp ==
    [][(session = MISSING /\ close_streak' = close_streak + 1) =>
          /\ close_result'.kind = "return"
          /\ ~reclosed'
          /\ session' = MISSING
          /\ pools' = pools
          /\ closes' = closes
          /\ token' = token
          /\ max_ratelimit_timeout' = max_ratelimit_timeout]_vars

C16_Witness ==
    /\ session = MISSING
    /\ close_streak = 2
    /\ close_result = Return(PyNone)
    /\ pools = <<>>

\* An attempt has gone out and the token is the one it went out with
AttemptIssued == attempts > 0 /\ login_pc # "done"

\* C17: every outgoing attempt carries the Session's fixed User-Agent, the
\* X-Session-Token header equal to the installed token whenever one is
\* installed, and Content-Type: application/json whenever a JSON body is
\* sent, whatever extra headers the caller passes.
C17_HeadersAttached ==
    AttemptIssued =>
        /\ headers["User-Agent"] = UserAgent
        /\ token # None => headers["X-Session-Token"] = token
        /\ sent_json => headers["Content-Type"] = "application/json"

\* ------------------------------------------------------------------ C18, C19
\* Some placeholder of the path has no entry in the parameters
PlaceholderMissing ==
    \E n \in 1..Len(route_parts) :
        route_parts[n].ph /\ route_parts[n].cs \notin DOMAIN route.parameters

\* The percent-encoded form of each character of the parameter values
PercentEncoded(c) ==
    CASE c = " " -> <<"%", "2", "0">>
      [] c = "%" -> <<"%", "2", "5">>
      [] OTHER -> <<c>>

RECURSIVE Encoded(_)
Encoded(cs) == IF cs = <<>> THEN <<>> ELSE PercentEncoded(Head(cs)) \o Encoded(Tail(cs))

\* The text that stands for a parameter value in the URL
Substituted(v) ==
    IF v.t = "str" THEN Encoded(v.s)
    ELSE IF v.i = 7 THEN <<"7">> ELSE <<"4", "2">>

RECURSIVE ResolvedPath(_, _)
\* The path with every placeholder replaced by its parameter
ResolvedPath(parts, kw) ==
    IF parts = <<>> THEN <<>>
    ELSE (IF Head(parts).ph THEN Substituted(kw[Head(parts).cs]) ELSE Head(parts).cs)
         \o ResolvedPath(Tail(parts), kw)

\* C18: Route.url(base) returns base followed by the path in which every
\* placeholder is replaced by its parameter, a string value percent-encoded
\* and a non-string value substituted without encoding.
C18_UrlSubstitutes ==
    (url # NoUrl /\ ~PlaceholderMissing) =>
        /\ url.kind = "return"
        /\ url.chars = url.base \o ResolvedPath(route_parts, route.parameters)

\* user_path='foo bar' against /streams/{user_path} on the default base gave
\* https://api.lightspeed.tv/streams/foo%20bar
C18_Witness ==
    /\ user_path \in DOMAIN route.parameters
    /\ route.parameters[user_path] = StrValue(<<"f", "o", "o", " ", "b", "a", "r">>)
    /\ route.path = <<"/", "s", "t", "r", "e", "a", "m", "s", "/", "{", "u", "s", "e", "r", "_",
          "p", "a", "t", "h", "}">>
    /\ url.kind = "return"
    /\ url.chars = <<"h", "t", "t", "p", "s", ":", "/", "/", "a", "p", "i", ".", "l", "i", "g",
          "h", "t", "s", "p", "e", "e", "d", ".", "t", "v", "/", "s", "t", "r", "e",
          "a", "m", "s", "/", "f", "o", "o", "%", "2", "0", "b", "a", "r">>

\* C19: Route.url(base) fails whenever a placeholder of the path has no entry
\* in the parameters, the empty mapping included, and never returns a URL with
\* an unresolved placeholder.
C19_MissingPlaceholderFails ==
    (url # NoUrl /\ PlaceholderMissing) => url.kind = "raise"

\* ------------------------------------------------------------------ C20
\* C20: the body of a response is parsed as structured data if and only if
\* its content-type header is exactly application/json; with any other value
\* (a charset suffix included) and with no header the body is kept as raw
\* text, and the classifier raises nothing.
C20_ParsedIffExactlyJson ==
    attempts > 0 =>
        /\ response.ctype = "application/json" => data = FromJson(response.text)
        /\ response.ctype # "application/json" => data = PyStr(response.text)

\* A JSON document sent as application/json; charset=utf-8 came back as text
C20_Witness ==
    /\ pc = "returned"
    /\ response.ctype = "application/json; charset=utf-8"
    /\ response.text = IdentityDoc
    /\ result = Return(PyStr(IdentityDoc))

\* ------------------------------------------------------------------ C21
\* The larger of two durations
Larger(x, y) == IF Gt(x, y) THEN x ELSE y

\* C21: whenever a maximum rate-limit wait is given to the constructor, the
\* stored max_ratelimit_timeout is the larger of 30 seconds and the given
\* value; it is None only when no value was given.
C21_ClampedWhenProvided ==
    /\ max_arg # NoFloat => max_ratelimit_timeout = Larger(Float(30), max_arg)
    /\ max_ratelimit_timeout = NoFloat => max_arg = NoFloat

\* ------------------------------------------------------------------ C25
\* C25: a rate-limit wait and retry draws from the same budget of attempts as
\* a transient retry: a request answered five times in a row by a 429 within
\* the budget sleeps five times, makes no sixth attempt and raises a plain
\* HTTPException, not RateLimited, from the last 429 response.
C25_RateLimitSharesBudget ==
    ratelimits = MaxTries =>
        /\ attempts = MaxTries
        /\ sleeps = MaxTries
        /\ response.status = 429
        /\ \/ pc = "sleep"
           \/ /\ pc = "raised"
              /\ result = RaiseHTTP("HTTPException", response, data)

C25_Witness ==
    /\ ratelimits = MaxTries
    /\ pc = "raised"
    /\ result.exc = "HTTPException"
    /\ result.status = 429

\* ------------------------------------------------------------------ C26
\* C26: the delay after a 502/504/524 response is 1 + 2*i seconds, i being
\* the zero-based index of the attempt among all the attempts of the
\* request, the rate-limited ones included; a 502 on the fifth attempt still
\* sleeps 9 seconds before the exhaustion error.
C26_DelayCountsEveryAttempt ==
    /\ (pc = "sleep" /\ response.status \in {502, 504, 524}) =>
           sleeping = Float(1 + 2 * (attempts - 1))
    /\ (pc = "raised" /\ attempts = MaxTries /\ response.status \in {502, 504, 524}) =>
           /\ sleeping = Float(9)
           /\ sleeps = attempts

\* A 502 on the third attempt, after two 429 responses, sleeps 5 seconds
C26_Witness ==
    /\ pc = "sleep"
    /\ attempts = 3
    /\ ratelimits = 2
    /\ response.status = 502
    /\ sleeping = Float(5)

\* ------------------------------------------------------------------ C27
\* The last response is a 429 whose body is a dict with retry_after
StructuredRateLimit ==
    /\ attempts > 0
    /\ response.status = 429
    /\ data.type = "dict"
    /\ "retry_after" \in data.keys

\* The last attempt slept for the wait of its 429, and the request went on to
\* the next attempt, or to the exhaustion error when it was the last one
SleptOnRateLimit ==
    /\ sleeps = attempts
    /\ Eq(sleeping, Div(Float(data.retry_after), 1000))
    /\ \/ pc = "sleep"
       \/ pc = "attempt" /\ tries = attempts
       \/ pc = "raised" /\ attempts = MaxTries /\ result.exc = "HTTPException"

\* The last attempt slept for the wait of its 429 and the request went on to
\* the next attempt
SleptAndRetried ==
    /\ sleeps = attempts
    /\ Eq(sleeping, Div(Float(data.retry_after), 1000))
    /\ pc = "sleep" \/ (pc = "attempt" /\ tries = attempts)

\* C27 as stated: RateLimited is raised only when max_ratelimit_timeout is
\* configured and retry_after/1000 is strictly greater than it; with no
\* maximum a structured 429 always sleeps and retries, and so does a wait
\* equal to the maximum.
C27_AsStated ==
    /\ (pc = "raised" /\ result.exc = "RateLimited") =>
           /\ max_ratelimit_timeout # NoFloat
           /\ StructuredRateLimit
           /\ Gt(Div(Float(data.retry_after), 1000), max_ratelimit_timeout)
    /\ (StructuredRateLimit /\ max_ratelimit_timeout = NoFloat) => SleptAndRetried
    /\ (/\ StructuredRateLimit
        /\ max_ratelimit_timeout # NoFloat
        /\ Eq(Div(Float(data.retry_after), 1000), max_ratelimit_timeout)) => SleptAndRetried

\* C27 amended: RateLimited is raised only when max_ratelimit_timeout is
\* configured and retry_after/1000 is strictly greater than it; with no
\* maximum, and with a wait equal to the maximum, a structured 429 always
\* sleeps, and the request retries unless that was its fifth attempt, after
\* which HTTPException is raised from the 429.
C27_RateLimitedOnlyAboveMax ==
    /\ (pc = "raised" /\ result.exc = "RateLimited") =>
           /\ max_ratelimit_timeout # NoFloat
           /\ StructuredRateLimit
           /\ Gt(Div(Float(data.retry_after), 1000), max_ratelimit_timeout)
    /\ (StructuredRateLimit /\ max_ratelimit_timeout = NoFloat) => SleptOnRateLimit
    /\ (/\ StructuredRateLimit
        /\ max_ratelimit_timeout # NoFloat
        /\ Eq(Div(Float(data.retry_after), 1000), max_ratelimit_timeout)) => SleptOnRateLimit

\* With no maximum configured a wait of 60.001 seconds was slept
C27_Witness ==
    /\ StructuredRateLimit
    /\ max_ratelimit_timeout = NoFloat
    /\ data.retry_after = 60001
    /\ pc = "sleep"

\* ------------------------------------------------------------------ C28
\* C28: when the identity check of static_login(t) ends in RateLimited, the
\* error reaches the caller and the token stays t, unverified: RateLimited is
\* not an HTTPException, so the rollback handler does not catch it.
C28_RateLimitedLoginKeepsToken ==
    (login_pc = "done" /\ result.exc = "RateLimited") =>
        /\ login_result = result
        /\ token = login_token

C28_Witness ==
    /\ login_pc = "done"
    /\ login_result.exc = "RateLimited"
    /\ token = "xyz"
    /\ old_token = "abc"

\* ------------------------------------------------------------------ C22
\* C22: Client.login called with a credential that is neither None nor a
\* string raises ClientException, before any startup or request: no pool is
\* created and the token is unchanged.
C22_NonStringCredential ==
    [][(\E arg \in TokenArgs : arg.t \notin {"NoneType", "str"} /\ ClientLogin(arg)) =>
          /\ client_result'.kind = "raise"
          /\ client_result'.exc = "ClientException"
          /\ UNCHANGED <<session, pools, token, attempts>>]_vars

\* ------------------------------------------------------------------ C24
\* C24: Client.user is None as long as no login with a token has succeeded,
\* and after Client.login(token) succeeds it is the ClientUser built from the
\* identity payload the login returned (which is what _connection.user holds).
C24_UserAfterLogin ==
    user_seen # Unread =>
        IF connection_user = PyNone
        THEN user_seen = PyNone
        ELSE /\ user_seen = connection_user
             /\ user_seen.type = "ClientUser"

\* ------------------------------------------------------------------ C30
\* C30: after close() completes, no connection pool created by this Session
\* remains open, whatever startup(), static_login() and Client.login() calls
\* came before.
C30_NoPoolLeftOpen ==
    (close_streak > 0 /\ close_result = Return(PyNone)) =>
        \A n \in DOMAIN pools : pools[n] = "closed"

\* ------------------------------------------------------------------ C23
RECURSIVE AloneFrom(_, _, _)
\* What a request running alone makes of the responses rs, from the i-th on:
\* its delays, whether it is over and how; ok is FALSE when it would not have
\* asked for all of rs
AloneFrom(rs, i, max) ==
    LET d == json_or_text(rs[i])
        cl == Classify(rs[i], d, i - 1, max)
    IN IF cl[1] # "sleep"
       THEN [ok |-> i = Len(rs), delays |-> <<>>, final |-> TRUE, result |-> cl[3]]
       ELSE IF i = Len(rs)
       THEN [ok |-> TRUE, delays |-> <<cl[2]>>, final |-> i = MaxTries,
             result |-> IF i = MaxTries
                        THEN RaiseHTTP(ExhaustedClass(rs[i].status), rs[i], d)
                        ELSE NoResult]
       ELSE IF i = MaxTries
       THEN [ok |-> FALSE, delays |-> <<>>, final |-> TRUE, result |-> NoResult]
       ELSE LET r == AloneFrom(rs, i + 1, max)
            IN [r EXCEPT !.delays = <<cl[2]>> \o @]

\* C23: for any interleaving of two concurrent requests on one Session each
\* request runs its own retry state machine: its attempts, its delays and its
\* outcome are those of a request that gets the same responses alone, and a
\* sleeping request does not keep the other from attempting or completing.
C23_IndependentRequests ==
    /\ \A c \in Callers :
          Len(calls[c].responses) > 0 =>
              LET e == AloneFrom(calls[c].responses, 1, max_ratelimit_timeout)
              IN /\ e.ok
                 /\ calls[c].delays = e.delays
                 /\ calls[c].pc \in {"returned", "raised"} =>
                        (e.final /\ calls[c].result = e.result)
                 /\ ~e.final => calls[c].pc \in {"sleep", "attempt"}
    /\ \A a \in Callers, b \in Callers :
          (a # b /\ calls[a].pc = "sleep" /\ calls[b].pc = "attempt") =>
              ENABLED (\E resp \in TwoResponses : TaskAttempt(b, resp))

\* Both requests are in flight and asleep, A after one attempt and B after a
\* rate limit and a transient error
C23_Witness ==
    /\ calls["A"].pc = "sleep"
    /\ calls["A"].delays = <<Float(1)>>
    /\ calls["B"].pc = "sleep"
    /\ calls["B"].delays = <<Div(Float(30001), 1000), Float(3)>>

\* ------------------------------------------------------------------ C29
\* Both callers' static_login calls are over
BothLoginsOver == \A c \in Callers : calls[c].login_pc = "done"

\* C29: for any interleaving of two concurrent static_login calls on one
\* Session, once both are over the token is the token of a login that
\* succeeded if one did, and the value held before both calls if both failed
\* with 401: a rollback never discards the token of a login that succeeded.
C29_ConcurrentLogins ==
    BothLoginsOver =>
        /\ (\E c \in Callers : calls[c].login_result.kind = "return") =>
               \E c \in Callers :
                   /\ calls[c].login_result.kind = "return"
                   /\ token = calls[c].login_token
        /\ (\A c \in Callers : calls[c].login_result.exc = "LoginFailure") =>
               token = None

====
